---- MODULE Spec2Model ----
(***************************************************************************)
(* Model of flamingpy/codes/graphs/egraph.py: the GF(2) row reducer, the   *)
(* LC constraint system, the nullspace extractor, the pairwise nullspace   *)
(* search, the two Clifford decoders and EGraph.is_lc_equivalent.          *)
(*                                                                         *)
(* Arrays are 0-indexed as in the source.  A matrix is a record            *)
(* [kind, shape, a] with a[i][j] the entry at row i, column j; a vector is *)
(* a function over 0..len-1.  Python's None is the record None.            *)
(***************************************************************************)
EXTENDS Integers, Sequences, FiniteSets, TLC

\* ----- bounds of the model ------------------------------------------------
\* node labels of an EGraph are drawn from 1..MaxNodes
MaxNodes == 2
\* rows / columns of a matrix assigned directly to EGraph.adj_mat
MaxDim == 2
\* rows and columns of the matrices given to reduce_RREform_mod2
MaxRows == 3
MaxCols == 3
\* qubits n of a basis / solution vector (rows have length 4n)
MaxQubits == 2
\* rows d of a basis given to search_nullspace
MaxBasisRows == 3
\* rows m of a constraint matrix given to nullspace_basis
MaxConstraintRows == 2
\* total entries of a basis or constraint matrix
MaxCells == 16
\* node labels of the EGraph whose nodes and edges are changed after its
\* adjacency matrix was generated are drawn from 1..MaxCacheNodes
MaxCacheNodes == 2

Bit == {0, 1}

\* ----- Python values ------------------------------------------------------
None == [kind |-> "None"]
Return(v) == [kind |-> "return", value |-> v]
Raise(e) == [kind |-> "raise", exc |-> e]

\* an optional integer argument: <<>> is None, <<k>> is k
NoArg == <<>>
Given(k) == <<k>>

\* range(k) as the sequence of the values it yields
range(k) == [t \in 1..k |-> t - 1]

Min(S) == CHOOSE x \in S : \A y \in S : x <= y

\* ----- numpy arrays -------------------------------------------------------
Mat(r, c, a) == [kind |-> "ndarray", shape |-> <<r, c>>, a |-> a]
NRows(M) == M.shape[1]
NCols(M) == M.shape[2]
ZeroMat(r, c) == Mat(r, c, [i \in 0..r-1 |-> [j \in 0..c-1 |-> 0]])
BinaryMats(r, c) == {Mat(r, c, a) : a \in [0..r-1 -> [0..c-1 -> Bit]]}
BinaryVecs(len) == [0..len-1 -> Bit]
VLen(v) == Cardinality(DOMAIN v)
\* a 1-D array
Vec(v) == [kind |-> "ndarray", shape |-> <<VLen(v)>>, a |-> v]

\* M.T
Transpose(M) ==
    Mat(NCols(M), NRows(M), [i \in 0..NCols(M)-1 |-> [j \in 0..NRows(M)-1 |-> M.a[j][i]]])

\* np.eye(k, dtype=int)
np_eye(k) == Mat(k, k, [i \in 0..k-1 |-> [j \in 0..k-1 |-> IF i = j THEN 1 ELSE 0]])

\* np.concatenate((X, Y), axis=-1)
np_concatenate(X, Y) ==
    Mat(NRows(X), NCols(X) + NCols(Y),
        [i \in 0..NRows(X)-1 |->
            [j \in 0..NCols(X)+NCols(Y)-1 |->
                IF j < NCols(X) THEN X.a[i][j] ELSE Y.a[i][j - NCols(X)]]])

\* np.diag(v) of a 1-D sequence v
np_diag(v) ==
    Mat(VLen(v), VLen(v),
        [i \in 0..VLen(v)-1 |-> [j \in 0..VLen(v)-1 |-> IF i = j THEN v[i] ELSE 0]])

\* np.block([[b00, b01], [b10, b11]]) of four equally shaped blocks
np_block4(b00, b01, b10, b11) ==
    LET r == NRows(b00)
        c == NCols(b00)
    IN  Mat(2 * r, 2 * c,
            [i \in 0..2*r-1 |->
                [j \in 0..2*c-1 |->
                    IF i < r
                    THEN (IF j < c THEN b00.a[i][j] ELSE b01.a[i][j - c])
                    ELSE (IF j < c THEN b10.a[i - r][j] ELSE b11.a[i - r][j - c])]])

\* R[p:, c0:]
SliceFrom(R, p, c0) ==
    Mat(NRows(R) - p, NCols(R) - c0,
        [i \in 0..NRows(R)-p-1 |-> [j \in 0..NCols(R)-c0-1 |-> R.a[i + p][j + c0]]])

\* ----- reduce_RREform_mod2 ------------------------------------------------
\* R[[p, i], :] = R[[i, p], :]
swap_rows(R, p, i) ==
    [R EXCEPT !.a = [r \in 0..NRows(R)-1 |->
        IF r = p THEN R.a[i] ELSE IF r = i THEN R.a[p] ELSE R.a[r]]]

\* R[p, :] = R[p, :] / R[p, j]
set_pivot(R, p, j) ==
    [R EXCEPT !.a[p] = [c \in 0..NCols(R)-1 |-> R.a[p][c] \div R.a[p][j]]]

\* the rows cleared when the pivot row is not taken out of the index list
eliminate_index_keeping_pivot(R, p, j) ==
    {i \in 0..NRows(R)-1 : R.a[i][j] # 0}

\* index = np.nonzero(R[:, j])[0].tolist(); index.remove(p)
eliminate_index(R, p, j) ==
    {i \in 0..NRows(R)-1 : R.a[i][j] # 0} \ {p}

\* R[index, :] = (R[index, :] - np.multiply.outer(R[index, j], R[p, :])) % 2
eliminate(R, p, j) ==
    LET index == eliminate_index(R, p, j)
    IN  [R EXCEPT !.a = [i \in 0..NRows(R)-1 |->
            IF i \in index
            THEN [c \in 0..NCols(R)-1 |-> (R.a[i][c] - R.a[i][j] * R.a[p][c]) % 2]
            ELSE R.a[i]]]

\* the body of "for j in range(max_cols)", from column j on, with row
\* reduced matrix R and pivot index p
RECURSIVE rre_loop(_, _, _, _)
rre_loop(R, p, j, max_cols) ==
    IF j >= max_cols
    THEN [R |-> R, p |-> p]
    ELSE LET index == {i \in p..NRows(R)-1 : R.a[i][j] # 0}
         IN  IF index = {}
             THEN rre_loop(R, p, j + 1, max_cols)
             ELSE LET i == Min(index)
                      R1 == swap_rows(R, p, i)
                      R2 == set_pivot(R1, p, j)
                      R3 == eliminate(R2, p, j)
                  IN  IF p + 1 = NRows(R)
                      THEN [R |-> R3, p |-> p + 1]
                      ELSE rre_loop(R3, p + 1, j + 1, max_cols)

\* reduce_RREform_mod2(M, max_cols=None) -> (R, p)
reduce_RREform_mod2(M, max_cols) ==
    LET mc == IF max_cols = NoArg THEN NCols(M) ELSE max_cols[1]
    IN  rre_loop(M, 0, 0, mc)

\* ----- lc_constraint_system -----------------------------------------------
\* the row block [A, B, C, D] of qubit j, row k, column col of the 4n columns
lc_block_entry(G, H, n, j, k, col) ==
    LET blk == col \div n
        i == col % n
    IN  CASE blk = 0 -> (IF k = i THEN G.a[j][k] ELSE 0)
          [] blk = 1 -> (IF k = j /\ i = j THEN 1 ELSE 0)
          [] blk = 2 -> G.a[i][j] * H.a[i][k]
          [] OTHER   -> (IF i = j THEN H.a[j][k] ELSE 0)

\* lc_constraint_system(G, H): np.block(M).astype(int), shape n^2 x 4n
lc_constraint_system(G, H) ==
    LET n == NRows(G)
    IN  Mat(n * n, 4 * n,
            [r \in 0..n*n-1 |->
                [col \in 0..4*n-1 |-> lc_block_entry(G, H, n, r \div n, r % n, col)]])

\* ----- module-level name lookup -------------------------------------------
\* the functions bound at module level that take (M, max_cols)
call_reducer(name, M, max_cols) ==
    IF name = "reduce_RREform_mod2"
    THEN Return(reduce_RREform_mod2(M, max_cols))
    ELSE Raise("NameError")

\* the functions bound at module level that take (G, H)
call_constraints(name, G, H) ==
    IF name = "lc_constraint_system"
    THEN Return(lc_constraint_system(G, H))
    ELSE Raise("NameError")

\* ----- nullspace_basis ----------------------------------------------------
\* the name nullspace_basis calls at lines 192 and 194
nullspace_reducer_name == "RREform_mod2"

nullspace_basis(M) ==
    LET M_transposed == Transpose(M)
        m_rows == NRows(M_transposed)
        n_cols == NCols(M_transposed)
        A == np_concatenate(M_transposed, np_eye(m_rows))
        first == call_reducer(nullspace_reducer_name, A, Given(n_cols))
    IN  IF first.kind = "raise"
        THEN first
        ELSE LET R == first.value.R
                 p == first.value.p
                 N == SliceFrom(R, p, n_cols)
                 second == call_reducer(nullspace_reducer_name, N, NoArg)
             IN  IF second.kind = "raise"
                 THEN second
                 ELSE Return(second.value.R)

\* ----- search_nullspace ---------------------------------------------------
\* np.vectorize(lambda x: x % 2)(np.add(basis[i], basis[j]))
pair_sum(basis, i, j) ==
    [c \in 0..NCols(basis)-1 |-> (basis.a[i][c] + basis.a[j][c]) % 2]

\* a determinant that pairs the wrong entries of the 2x2 block
det_wrong_pairing(sol, n, k) ==
    (sol[k] * sol[k + n] + sol[k + 2 * n] * sol[k + 3 * n]) % 2

\* det = (sol[k] * sol[k + 3 * n] + sol[k + n] * sol[k + 2 * n]) % 2
det(sol, n, k) ==
    (sol[k] * sol[k + 3 * n] + sol[k + n] * sol[k + 2 * n]) % 2

\* "for k in range(n)": sat stays True unless some det != 1 (break at the first)
RECURSIVE det_loop(_, _, _)
det_loop(sol, n, k) ==
    IF k >= n THEN TRUE
    ELSE IF det(sol, n, k) # 1 THEN FALSE
    ELSE det_loop(sol, n, k + 1)

\* an inner loop that runs j downwards
inner_range_descending(i) == [t \in 1..i |-> i - t]

\* "for j in range(i)"
inner_range(i) == range(i)

\* the two nested loops from pair (i, inner_range(i)[jx]) on; sols is the list
\* of stored potential solutions
RECURSIVE search_loop(_, _, _, _, _, _)
search_loop(basis, d, n, i, jx, sols) ==
    IF i >= d
    THEN None
    ELSE IF jx > Len(inner_range(i))
    THEN search_loop(basis, d, n, i + 1, 1, sols)
    ELSE LET j == inner_range(i)[jx]
             sol == pair_sum(basis, i, j)
             stored == Append(sols, sol)
         IN  IF det_loop(sol, n, 0)
             THEN Vec(stored[1])
             ELSE search_loop(basis, d, n, i, jx + 1, SubSeq(stored, 1, Len(stored) - 1))

\* search_nullspace(basis) -> None or the solution vector
search_nullspace(basis) ==
    LET d == NRows(basis)
        n == NCols(basis) \div 4
    IN  search_loop(basis, d, n, 0, 1, <<>>)

\* ----- Clifford decoders --------------------------------------------------
\* clifford_vec_to_tensors(vec): list of n 2x2 arrays
clifford_vec_to_tensors(vec) ==
    LET n == VLen(vec) \div 4
    IN  [i \in 0..n-1 |->
            Mat(2, 2, [r \in 0..1 |-> [c \in 0..1 |-> vec[i + (2 * r + c) * n]]])]

\* a block assembly with the off-diagonal quadrants exchanged
global_blocks_transposed(b0, b1, b2, b3) == np_block4(b0, b2, b1, b3)

\* np.block([[blocks[0], blocks[1]], [blocks[2], blocks[3]]])
global_blocks(b0, b1, b2, b3) == np_block4(b0, b1, b2, b3)

\* clifford_vec_to_global(vec): one 2n x 2n array
clifford_vec_to_global(vec) ==
    LET n == VLen(vec) \div 4
        blocks == [k \in 0..3 |-> np_diag([i \in 0..n-1 |-> vec[i + k * n]])]
    IN  global_blocks(blocks[0], blocks[1], blocks[2], blocks[3])

\* ----- state -------------------------------------------------------------
VARIABLES
    \* two EGraph objects, Graphs = {1, 2}: the nx.Graph content and the
    \* attributes set by EGraph.__init__
    nodes, edges, to_indices, to_points, adj_mat,
    \* the last call of an EGraph method and what it returned or raised
    outcome,
    \* reduce_RREform_mod2: its arguments, its result and the result of
    \* reducing that result again
    rre_M, rre_max_cols, rre_out, rre_again,
    \* search_nullspace: its argument and its result
    basis, solution_vector,
    \* the decoders: their argument and their results
    vec, tensors, global_op,
    \* nullspace_basis: its argument and its result
    system, nullspace

egraphVars == <<nodes, edges, to_indices, to_points, adj_mat, outcome>>
rreVars == <<rre_M, rre_max_cols, rre_out, rre_again>>
searchVars == <<basis, solution_vector>>
decodeVars == <<vec, tensors, global_op>>
nullVars == <<system, nullspace>>
vars == <<egraphVars, rreVars, searchVars, decodeVars, nullVars>>

\* a function not called yet has no argument and no result
Idle == [kind |-> "idle"]

Graphs == {1, 2}
Nodes == 1..MaxNodes
Forms == {"tensor", "global"}

\* ----- EGraph -------------------------------------------------------------
Dict(d) == [kind |-> "dict", d |-> d]
List(items) == [kind |-> "list", items |-> items]
Sparse(M) == [M EXCEPT !.kind = "sparse"]

\* sorted(S) as a sequence
sorted(S) ==
    CHOOSE q \in [1..Cardinality(S) -> S] :
        \A x, y \in 1..Cardinality(S) : x < y => q[x] < q[y]

\* the attributes of the two EGraphs as one record
Attrs == [to_indices |-> to_indices, to_points |-> to_points, adj_mat |-> adj_mat]

\* EGraph.index_generator (macronodes=False): the attributes after the call
\* and its result
index_generator(st, g) ==
    IF st.to_indices[g] # None
    THEN [st |-> st, res |-> Return(st.to_indices[g])]
    ELSE LET N == Cardinality(nodes[g])
             order == sorted(nodes[g])
             ind_dict == [v \in nodes[g] |-> (CHOOSE t \in 1..N : order[t] = v) - 1]
             points == [t \in 0..N-1 |-> order[t + 1]]
         IN  [st |-> [st EXCEPT !.to_indices[g] = Dict(ind_dict),
                                !.to_points[g] = Dict(points)],
              res |-> Return(Dict(ind_dict))]

\* nx.to_numpy_array(self, nodelist=sorted_nodes, dtype=np.int8)
to_numpy_array(g, sorted_nodes) ==
    LET k == Len(sorted_nodes)
    IN  Mat(k, k, [i \in 0..k-1 |-> [j \in 0..k-1 |->
            IF {sorted_nodes[i + 1], sorted_nodes[j + 1]} \in edges[g] THEN 1 ELSE 0]])

\* an adj_generator that builds the matrix anew on every call
adj_generator_uncached(st, g, sparse) ==
    LET st1 == IF st.to_points[g] = None THEN index_generator(st, g).st ELSE st
        N == Cardinality(nodes[g])
        points == st1.to_points[g].d
    IN  IF \E i \in 0..N-1 : i \notin DOMAIN points
        THEN [st |-> st1, res |-> Raise("KeyError")]
        ELSE LET sorted_nodes == [t \in 1..N |-> points[t - 1]]
             IN  IF \E t \in 1..N : sorted_nodes[t] \notin nodes[g]
                 THEN [st |-> st1, res |-> Raise("NetworkXError")]
                 ELSE LET dense == to_numpy_array(g, sorted_nodes)
                          adj == IF sparse THEN Sparse(dense) ELSE dense
                      IN  [st |-> [st1 EXCEPT !.adj_mat[g] = adj],
                           res |-> Return(adj)]

\* EGraph.adj_generator(sparse): the attributes after the call and its result
adj_generator(st, g, sparse) ==
    IF st.adj_mat[g] # None
    THEN [st |-> st, res |-> Return(st.adj_mat[g])]
    ELSE LET st1 == IF st.to_points[g] = None THEN index_generator(st, g).st ELSE st
             N == Cardinality(nodes[g])
             points == st1.to_points[g].d
         IN  IF \E i \in 0..N-1 : i \notin DOMAIN points
             THEN [st |-> st1, res |-> Raise("KeyError")]
             ELSE LET sorted_nodes == [t \in 1..N |-> points[t - 1]]
                  IN  IF \E t \in 1..N : sorted_nodes[t] \notin nodes[g]
                      THEN [st |-> st1, res |-> Raise("NetworkXError")]
                      ELSE LET dense == to_numpy_array(g, sorted_nodes)
                               adj == IF sparse THEN Sparse(dense) ELSE dense
                           IN  [st |-> [st1 EXCEPT !.adj_mat[g] = adj],
                                res |-> Return(adj)]

\* the name is_lc_equivalent calls at line 482
constraint_builder_name == "system_constraints"

\* is_lc_equivalent, lines 479-503: the search for a solution
lc_search(G, H, clifford_form) ==
    LET built == call_constraints(constraint_builder_name, G, H)
    IN  IF built.kind = "raise"
        THEN built
        ELSE LET null == nullspace_basis(built.value)
             IN  IF null.kind = "raise"
                 THEN null
                 ELSE LET sol == search_nullspace(null.value)
                      IN  IF sol = None
                          THEN Return([equivalent |-> FALSE, clifford_output |-> None])
                          ELSE IF clifford_form = "tensor"
                          THEN Return([equivalent |-> TRUE,
                                       clifford_output |-> List(clifford_vec_to_tensors(sol.a))])
                          ELSE IF clifford_form = "global"
                          THEN Return([equivalent |-> TRUE,
                                       clifford_output |-> clifford_vec_to_global(sol.a)])
                          ELSE Raise("UnboundLocalError")

\* a validation that tests squareness before comparing the two shapes
lc_validate_square_first(G, H, clifford_form) ==
    IF G.kind # "ndarray" \/ H.kind # "ndarray"
    THEN [stage |-> "validate", res |-> Raise("ValueError")]
    ELSE IF G.shape = <<0, 0>> \/ H.shape = <<0, 0>>
    THEN [stage |-> "validate",
          res |-> Return([equivalent |-> FALSE, clifford_output |-> None])]
    ELSE IF G.shape[1] # G.shape[2] \/ H.shape[1] # H.shape[2]
    THEN [stage |-> "validate", res |-> Raise("ValueError")]
    ELSE IF G.shape # H.shape
    THEN [stage |-> "validate",
          res |-> Return([equivalent |-> FALSE, clifford_output |-> None])]
    ELSE [stage |-> "search", res |-> lc_search(G, H, clifford_form)]

\* a validation without the test for a square shape
lc_validate_no_square_test(G, H, clifford_form) ==
    IF G.kind # "ndarray" \/ H.kind # "ndarray"
    THEN [stage |-> "validate", res |-> Raise("ValueError")]
    ELSE IF G.shape = <<0, 0>> \/ H.shape = <<0, 0>>
    THEN [stage |-> "validate",
          res |-> Return([equivalent |-> FALSE, clifford_output |-> None])]
    ELSE IF G.shape # H.shape
    THEN [stage |-> "validate",
          res |-> Return([equivalent |-> FALSE, clifford_output |-> None])]
    ELSE [stage |-> "search", res |-> lc_search(G, H, clifford_form)]

\* is_lc_equivalent, lines 458-503, on the two adjacency matrices G and H
lc_validate(G, H, clifford_form) ==
    IF G.kind # "ndarray" \/ H.kind # "ndarray"
    THEN [stage |-> "validate", res |-> Raise("ValueError")]
    ELSE IF G.shape = <<0, 0>> \/ H.shape = <<0, 0>>
    THEN [stage |-> "validate",
          res |-> Return([equivalent |-> FALSE, clifford_output |-> None])]
    ELSE IF G.shape # H.shape
    THEN [stage |-> "validate",
          res |-> Return([equivalent |-> FALSE, clifford_output |-> None])]
    ELSE IF G.shape[1] # G.shape[2]
    THEN [stage |-> "validate", res |-> Raise("ValueError")]
    ELSE [stage |-> "search", res |-> lc_search(G, H, clifford_form)]

\* EGraph.is_lc_equivalent(self, graph2, clifford_form): the attributes after
\* the call, the matrices it compared and its result
is_lc_equivalent(st, self, graph2, clifford_form) ==
    LET first == adj_generator(st, self, FALSE)
    IN  IF first.res.kind = "raise"
        THEN [st |-> first.st, stage |-> "adj", G |-> None, H |-> None, res |-> first.res]
        ELSE LET second == adj_generator(first.st, graph2, FALSE)
             IN  IF second.res.kind = "raise"
                 THEN [st |-> second.st, stage |-> "adj", G |-> None, H |-> None,
                       res |-> second.res]
                 ELSE LET G == second.st.adj_mat[self]
                          H == second.st.adj_mat[graph2]
                          v == lc_validate(G, H, clifford_form)
                      IN  [st |-> second.st, stage |-> v.stage, G |-> G, H |-> H,
                           res |-> v.res]

\* ----- the EGraph state machine -------------------------------------------
\* the 2-element subsets of S: the edges of a simple graph on S
EdgesOn(S) == {e \in SUBSET S : Cardinality(e) = 2}

\* matrices a caller assigns to the adj_mat attribute instead of generating it
\* (np.zeros of a non-square shape whose larger dimension is MaxDim)
AssignedMats == {ZeroMat(r, MaxDim) : r \in 0..MaxDim-1} \cup
                {ZeroMat(MaxDim, c) : c \in 0..MaxDim-1}

IdleRRE == rre_M = Idle /\ rre_max_cols = Idle /\ rre_out = Idle /\ rre_again = Idle
IdleSearch == basis = Idle /\ solution_vector = Idle
IdleDecode == vec = Idle /\ tensors = Idle /\ global_op = Idle
IdleNull == system = Idle /\ nullspace = Idle

IdleEGraph ==
    /\ nodes = [g \in Graphs |-> {}]
    /\ edges = [g \in Graphs |-> {}]
    /\ to_indices = [g \in Graphs |-> None]
    /\ to_points = [g \in Graphs |-> None]
    /\ adj_mat = [g \in Graphs |-> None]
    /\ outcome = Idle

\* EGraph.__init__ of two graphs built from node and edge lists
Init ==
    /\ nodes \in [Graphs -> {1..n : n \in 0..MaxNodes}]
    /\ edges \in [Graphs -> SUBSET EdgesOn(Nodes)]
    /\ \A g \in Graphs : edges[g] \subseteq EdgesOn(nodes[g])
    /\ to_indices = [g \in Graphs |-> None]
    /\ to_points = [g \in Graphs |-> None]
    /\ adj_mat = [g \in Graphs |-> None]
    /\ outcome = Idle
    /\ IdleRRE /\ IdleSearch /\ IdleDecode /\ IdleNull

SetAttrs(st) ==
    /\ to_indices' = st.to_indices
    /\ to_points' = st.to_points
    /\ adj_mat' = st.adj_mat

AdjGenerator(g, sparse) ==
    /\ adj_mat[g] = None
    /\ SetAttrs(adj_generator(Attrs, g, sparse).st)
    /\ UNCHANGED <<nodes, edges, outcome, rreVars, searchVars, decodeVars, nullVars>>

\* graph.adj_mat = A, by a caller that supplies the matrix itself
AssignAdjMat(g, A) ==
    /\ adj_mat[g] = None
    /\ adj_mat' = [adj_mat EXCEPT ![g] = A]
    /\ UNCHANGED <<nodes, edges, to_indices, to_points, outcome,
                   rreVars, searchVars, decodeVars, nullVars>>

IsLcEquivalent(self, graph2, clifford_form) ==
    LET call == is_lc_equivalent(Attrs, self, graph2, clifford_form)
    IN  /\ SetAttrs(call.st)
        /\ outcome' = [op |-> "is_lc_equivalent",
                       self |-> self, graph2 |-> graph2, clifford_form |-> clifford_form,
                       G |-> call.G, H |-> call.H, stage |-> call.stage, res |-> call.res]
        /\ UNCHANGED <<nodes, edges, rreVars, searchVars, decodeVars, nullVars>>

Next ==
    \/ \E g \in Graphs, sparse \in BOOLEAN : AdjGenerator(g, sparse)
    \/ \E g \in Graphs, A \in AssignedMats : AssignAdjMat(g, A)
    \/ \E self \in Graphs, graph2 \in Graphs, clifford_form \in Forms :
           IsLcEquivalent(self, graph2, clifford_form)

Spec == Init /\ [][Next]_vars

\* ----- the cached attributes while the graph changes ----------------------
CacheNodes == 1..MaxCacheNodes
\* the graph whose nodes and edges the caller changes after construction
Changing == 1

\* two empty graphs, EGraph()
InitCache ==
    /\ IdleEGraph
    /\ IdleRRE /\ IdleSearch /\ IdleDecode /\ IdleNull

\* nx.Graph.add_node(v)
AddNode(g, v) ==
    /\ v \notin nodes[g]
    /\ nodes' = [nodes EXCEPT ![g] = @ \cup {v}]
    /\ UNCHANGED <<edges, to_indices, to_points, adj_mat, outcome,
                   rreVars, searchVars, decodeVars, nullVars>>

\* nx.Graph.remove_node(v): the node and its edges
RemoveNode(g, v) ==
    /\ v \in nodes[g]
    /\ nodes' = [nodes EXCEPT ![g] = @ \ {v}]
    /\ edges' = [edges EXCEPT ![g] = {e \in @ : v \notin e}]
    /\ UNCHANGED <<to_indices, to_points, adj_mat, outcome,
                   rreVars, searchVars, decodeVars, nullVars>>

\* nx.Graph.add_edge(u, v): the edge and the end points not yet in the graph
AddEdge(g, u, v) ==
    /\ u # v
    /\ {u, v} \notin edges[g]
    /\ nodes' = [nodes EXCEPT ![g] = @ \cup {u, v}]
    /\ edges' = [edges EXCEPT ![g] = @ \cup {{u, v}}]
    /\ UNCHANGED <<to_indices, to_points, adj_mat, outcome,
                   rreVars, searchVars, decodeVars, nullVars>>

\* nx.Graph.remove_edge(u, v)
RemoveEdge(g, e) ==
    /\ e \in edges[g]
    /\ edges' = [edges EXCEPT ![g] = @ \ {e}]
    /\ UNCHANGED <<nodes, to_indices, to_points, adj_mat, outcome,
                   rreVars, searchVars, decodeVars, nullVars>>

\* graph.index_generator()
CallIndexGenerator(g) ==
    LET call == index_generator(Attrs, g)
    IN  /\ SetAttrs(call.st)
        /\ outcome' = [op |-> "index_generator", g |-> g, res |-> call.res]
        /\ UNCHANGED <<nodes, edges, rreVars, searchVars, decodeVars, nullVars>>

\* graph.adj_generator(sparse)
CallAdjGenerator(g, sparse) ==
    LET call == adj_generator(Attrs, g, sparse)
    IN  /\ SetAttrs(call.st)
        /\ outcome' = [op |-> "adj_generator", g |-> g, sparse |-> sparse,
                       res |-> call.res]
        /\ UNCHANGED <<nodes, edges, rreVars, searchVars, decodeVars, nullVars>>

NextCache ==
    \/ \E v \in CacheNodes : AddNode(Changing, v)
    \/ \E v \in CacheNodes : RemoveNode(Changing, v)
    \/ \E u \in CacheNodes, v \in CacheNodes : AddEdge(Changing, u, v)
    \/ \E e \in EdgesOn(CacheNodes) : RemoveEdge(Changing, e)
    \/ \E g \in Graphs : CallIndexGenerator(g)
    \/ \E g \in Graphs, sparse \in BOOLEAN : CallAdjGenerator(g, sparse)
    \/ \E self \in Graphs, graph2 \in Graphs, clifford_form \in Forms :
           IsLcEquivalent(self, graph2, clifford_form)

SpecCache == InitCache /\ [][NextCache]_vars

\* ----- reduce_RREform_mod2 applied to binary matrices ---------------------
InitRRE ==
    /\ \E r \in 0..MaxRows, c \in 0..MaxCols :
          /\ rre_M \in BinaryMats(r, c)
          /\ rre_max_cols \in {NoArg} \cup {Given(k) : k \in 0..c}
    /\ rre_out = Idle
    /\ rre_again = Idle
    /\ IdleEGraph /\ IdleSearch /\ IdleDecode /\ IdleNull

\* (R, p) = reduce_RREform_mod2(M, max_cols)
Reduce ==
    /\ rre_out = Idle
    /\ rre_out' = reduce_RREform_mod2(rre_M, rre_max_cols)
    /\ UNCHANGED <<rre_M, rre_max_cols, rre_again, egraphVars, searchVars, decodeVars, nullVars>>

\* reduce_RREform_mod2(R, max_cols) of the R just returned
ReduceAgain ==
    /\ rre_out # Idle
    /\ rre_again = Idle
    /\ rre_again' = reduce_RREform_mod2(rre_out.R, rre_max_cols)
    /\ UNCHANGED <<rre_M, rre_max_cols, rre_out, egraphVars, searchVars, decodeVars, nullVars>>

NextRRE == Reduce \/ ReduceAgain

SpecRRE == InitRRE /\ [][NextRRE]_vars

\* ----- search_nullspace applied to binary bases ---------------------------
InitSearch ==
    /\ \E n \in 0..MaxQubits, d \in 0..MaxBasisRows :
          /\ d * 4 * n <= MaxCells
          /\ basis \in BinaryMats(d, 4 * n)
    /\ solution_vector = Idle
    /\ IdleEGraph /\ IdleRRE /\ IdleDecode /\ IdleNull

Search ==
    /\ solution_vector = Idle
    /\ solution_vector' = search_nullspace(basis)
    /\ UNCHANGED <<basis, egraphVars, rreVars, decodeVars, nullVars>>

NextSearch == Search

SpecSearch == InitSearch /\ [][NextSearch]_vars

\* ----- the decoders applied to binary vectors -----------------------------
InitDecode ==
    /\ \E n \in 0..MaxQubits : vec \in BinaryVecs(4 * n)
    /\ tensors = Idle
    /\ global_op = Idle
    /\ IdleEGraph /\ IdleRRE /\ IdleSearch /\ IdleNull

ToTensors ==
    /\ tensors = Idle
    /\ tensors' = List(clifford_vec_to_tensors(vec))
    /\ UNCHANGED <<vec, global_op, egraphVars, rreVars, searchVars, nullVars>>

ToGlobal ==
    /\ global_op = Idle
    /\ global_op' = clifford_vec_to_global(vec)
    /\ UNCHANGED <<vec, tensors, egraphVars, rreVars, searchVars, nullVars>>

NextDecode == ToTensors \/ ToGlobal

SpecDecode == InitDecode /\ [][NextDecode]_vars

\* ----- nullspace_basis applied to binary constraint matrices --------------
InitNull ==
    /\ \E n \in 0..MaxQubits, m \in 0..MaxConstraintRows :
          /\ m * 4 * n <= MaxCells
          /\ system \in BinaryMats(m, 4 * n)
    /\ nullspace = Idle
    /\ IdleEGraph /\ IdleRRE /\ IdleSearch /\ IdleDecode

Nullspace ==
    /\ nullspace = Idle
    /\ nullspace' = nullspace_basis(system)
    /\ UNCHANGED <<system, egraphVars, rreVars, searchVars, decodeVars>>

NextNull == Nullspace

SpecNull == InitNull /\ [][NextNull]_vars

\* ======================= properties =======================================
NotEquivalent == Return([equivalent |-> FALSE, clifford_output |-> None])
Called == outcome # Idle
Dense(A) == A.kind = "ndarray"
BothDense == Called /\ Dense(outcome.G) /\ Dense(outcome.H)
Square(A) == A.shape[1] = A.shape[2]

\* A is the adjacency matrix of a simple undirected graph on n >= 1 nodes
SimpleAdjacency(A) ==
    /\ Dense(A) /\ Square(A) /\ NRows(A) >= 1
    /\ \A i, j \in 0..NRows(A)-1 : A.a[i][j] = A.a[j][i] /\ A.a[i][i] = 0

\* C1: a call on two simple graphs with the same adjacency matrix returns
\* is_equivalent = True together with an operator that is not None.
C1_Reflexive ==
    (BothDense /\ SimpleAdjacency(outcome.G) /\ outcome.H = outcome.G)
        => /\ outcome.res.kind = "return"
           /\ outcome.res.value.equivalent = TRUE
           /\ outcome.res.value.clifford_output # None

\* C2: on two simple graphs with the same number n >= 1 of nodes the call and
\* the call with the two graphs exchanged both report a boolean verdict, and
\* the two verdicts are equal.
C2_Symmetric ==
    (BothDense /\ SimpleAdjacency(outcome.G) /\ SimpleAdjacency(outcome.H)
               /\ outcome.G.shape = outcome.H.shape)
        => LET back == lc_validate(outcome.H, outcome.G, outcome.clifford_form).res
           IN  /\ outcome.res.kind = "return"
               /\ back.kind = "return"
               /\ outcome.res.value.equivalent = back.value.equivalent

\* C4: on two dense, non-empty, square matrices of equal shape the call
\* returns normally, (False, None) or (True, operator), and never raises.
C4_ReturnsNormally ==
    (BothDense /\ Square(outcome.G) /\ NRows(outcome.G) >= 1
               /\ outcome.G.shape = outcome.H.shape)
        => /\ outcome.res.kind = "return"
           /\ outcome.res.value.equivalent = (outcome.res.value.clifford_output # None)

\* C5: when either dense matrix has shape (0, 0), or the two shapes differ,
\* the call returns (False, None) from the validation, before the constraint
\* system is built.
C5_EmptyOrMismatch ==
    (BothDense /\ (\/ outcome.G.shape = <<0, 0>>
                   \/ outcome.H.shape = <<0, 0>>
                   \/ outcome.G.shape # outcome.H.shape))
        => outcome.res = NotEquivalent /\ outcome.stage = "validate"

C5_Witness ==
    /\ BothDense
    /\ outcome.G.shape # outcome.H.shape
    /\ outcome.G.shape # <<0, 0>> /\ outcome.H.shape # <<0, 0>>
    /\ Square(outcome.G) /\ Square(outcome.H)
    /\ outcome.res = NotEquivalent

\* C6 as stated: when either dense matrix is non-square the call raises
\* ValueError.
C6_NonSquareAlwaysRaises ==
    (BothDense /\ (~Square(outcome.G) \/ ~Square(outcome.H)))
        => outcome.res = Raise("ValueError")

\* C6 as amended: a non-square dense matrix makes the call raise ValueError
\* exactly when the other matrix has the same shape; against an empty or
\* differently shaped matrix the call returns (False, None).
C6_NonSquareSameShapeRaises ==
    (BothDense /\ (~Square(outcome.G) \/ ~Square(outcome.H)))
        => /\ outcome.stage = "validate"
           /\ outcome.G.shape = outcome.H.shape => outcome.res = Raise("ValueError")
           /\ outcome.G.shape # outcome.H.shape => outcome.res = NotEquivalent

C6_Witness ==
    /\ BothDense
    /\ ~Square(outcome.G)
    /\ outcome.G.shape = outcome.H.shape
    /\ outcome.self # outcome.graph2
    /\ outcome.res = Raise("ValueError")

\* the per-qubit determinant condition of a length-4n vector s at qubit k
BlockInvertible(s, n, k) == (s[k] * s[k + 3 * n] + s[k + n] * s[k + 2 * n]) % 2 = 1
Searched == solution_vector # Idle
Found == Searched /\ solution_vector # None
Qubits(B) == NCols(B) \div 4

\* C3: a vector returned by search_nullspace satisfies the determinant
\* condition at every qubit index k in 0..n-1.
C3_ReturnedVectorInvertible ==
    Found => \A k \in 0..Qubits(basis)-1 :
                 BlockInvertible(solution_vector.a, Qubits(basis), k)

C3_Witness ==
    /\ Found
    /\ Qubits(basis) = 2
    /\ \E c \in 0..3 : solution_vector.a[c] # solution_vector.a[c + 4]

\* the pairs (i, j), j < i < d, whose mod-2 sum passes at every qubit
SumOf(B, i, j) == [c \in 0..NCols(B)-1 |-> (B.a[i][c] + B.a[j][c]) % 2]
PassingPairs(B) ==
    {pr \in (0..NRows(B)-1) \X (0..NRows(B)-1) :
        /\ pr[2] < pr[1]
        /\ \A k \in 0..Qubits(B)-1 : BlockInvertible(SumOf(B, pr[1], pr[2]), Qubits(B), k)}
FirstPair(S) ==
    CHOOSE pr \in S : \A q \in S : pr[1] < q[1] \/ (pr[1] = q[1] /\ pr[2] <= q[2])

\* C7: search_nullspace returns the sum of the first passing pair in the
\* order i ascending, then j < i ascending, and None exactly when no pair
\* passes (so always when the basis has fewer than two rows).
C7_FirstPairInOrder ==
    Searched =>
        /\ (solution_vector = None) <=> (PassingPairs(basis) = {})
        /\ PassingPairs(basis) # {} =>
               LET pr == FirstPair(PassingPairs(basis))
               IN  solution_vector = Vec(SumOf(basis, pr[1], pr[2]))
        /\ NRows(basis) < 2 => solution_vector = None

C7_Witness ==
    /\ Found
    /\ NRows(basis) = 3
    /\ Cardinality(PassingPairs(basis)) >= 2
    /\ <<1, 0>> \notin PassingPairs(basis)
    /\ SumOf(basis, 2, 0) # SumOf(basis, 2, 1)

\* C8: reducing the result of reduce_RREform_mod2(M) again returns the same
\* (R, p).
C8_Idempotent ==
    (rre_again # Idle /\ rre_max_cols = NoArg) => rre_again = rre_out

C8_Witness ==
    /\ rre_again # Idle
    /\ rre_max_cols = NoArg
    /\ rre_out.p >= 2
    /\ rre_out.R # rre_M
    /\ rre_again = rre_out

\* C9: T = clifford_vec_to_tensors(vec) has n entries [[a_k, b_k], [c_k, d_k]]
\* read from vec at k, k+n, k+2n, k+3n; Q = clifford_vec_to_global(vec) is
\* 2n x 2n with Q[k,k], Q[k,n+k], Q[n+k,k], Q[n+k,n+k] equal to the entries of
\* T[k] and every other entry 0.
C9_DecodersAgree ==
    (tensors # Idle /\ global_op # Idle) =>
        LET n == VLen(vec) \div 4
            T == tensors.items
            Q == global_op
        IN  /\ DOMAIN T = 0..n-1
            /\ \A k \in 0..n-1 :
                   /\ T[k].shape = <<2, 2>>
                   /\ T[k].a[0][0] = vec[k] /\ T[k].a[0][1] = vec[k + n]
                   /\ T[k].a[1][0] = vec[k + 2 * n] /\ T[k].a[1][1] = vec[k + 3 * n]
            /\ Q.shape = <<2 * n, 2 * n>>
            /\ \A i, j \in 0..2*n-1 :
                   Q.a[i][j] = IF i % n = j % n
                               THEN T[i % n].a[i \div n][j \div n]
                               ELSE 0

C9_Witness ==
    /\ tensors # Idle /\ global_op # Idle
    /\ VLen(vec) = 8
    /\ vec[2] # vec[4] /\ vec[3] # vec[5]
    /\ global_op.a[0][2] = 1 /\ global_op.a[2][0] = 0

\* the right nullspace of M over GF(2), and the span of the rows of B
DotMod2(row, v) == Cardinality({c \in DOMAIN v : row[c] = 1 /\ v[c] = 1}) % 2
NullVectors(M) ==
    {v \in BinaryVecs(NCols(M)) : \A r \in 0..NRows(M)-1 : DotMod2(M.a[r], v) = 0}
RowSpan(B) ==
    {[c \in 0..NCols(B)-1 |-> Cardinality({i \in S : B.a[i][c] = 1}) % 2] :
        S \in SUBSET (0..NRows(B)-1)}
Rank(M) == CHOOSE k \in 0..NRows(M) : 2^k = Cardinality(RowSpan(M))

\* C10: nullspace_basis(M) returns a binary matrix with 4n - rank(M) rows
\* that are linearly independent and each satisfy M*v = 0 (mod 2).
C10_NullspaceBasis ==
    nullspace # Idle =>
        /\ nullspace.kind = "return"
        /\ LET B == nullspace.value
           IN  /\ NCols(B) = NCols(system)
               /\ NRows(B) = NCols(system) - Rank(system)
               /\ \A i \in 0..NRows(B)-1, c \in 0..NCols(B)-1 : B.a[i][c] \in Bit
               /\ \A i \in 0..NRows(B)-1 : B.a[i] \in NullVectors(system)
               /\ Cardinality(RowSpan(B)) = 2^NRows(B)
               /\ RowSpan(B) = NullVectors(system)

\* the cached attributes never change once set
CacheKept ==
    \A g \in Graphs :
        /\ adj_mat[g] # None => adj_mat'[g] = adj_mat[g]
        /\ to_indices[g] # None =>
               to_indices'[g] = to_indices[g] /\ to_points'[g] = to_points[g]

\* a generator call returns what is cached
ReturnsCached ==
    /\ (outcome # Idle /\ outcome.op = "adj_generator") =>
           \/ outcome.res = Return(adj_mat[outcome.g])
           \/ outcome.res.kind = "raise" /\ adj_mat[outcome.g] = None
    /\ (outcome # Idle /\ outcome.op = "index_generator") =>
           outcome.res = Return(to_indices[outcome.g])

\* this step is an is_lc_equivalent call that finds a sparse adj_mat cached
\* on one of its two graphs
LcCallOnSparse ==
    /\ outcome' # outcome
    /\ outcome'.op = "is_lc_equivalent"
    /\ \/ adj_mat[outcome'.self].kind = "sparse"
       \/ adj_mat[outcome'.graph2].kind = "sparse"

====
